---- MODULE Spec2Model ----
(***************************************************************************)
(* Model of the analytics dashboard script (src/app.py).                   *)
(*                                                                         *)
(* One interaction of the user is one top-to-bottom run of the script:     *)
(* the sidebar branch of the selected data source (which may call a cached *)
(* loader and store its result in the session state), followed by the      *)
(* main content (validation gate and the four tabs).                       *)
(***************************************************************************)
EXTENDS Integers, Sequences, FiniteSets, TLC

(***************************************************************************)
(* Bounds of the model.                                                    *)
(***************************************************************************)
MaxTicks == 2
MaxRows == 2

(***************************************************************************)
(* Program constants.                                                      *)
(***************************************************************************)
ApiTtl == 3600
NoTtl == 0 - 1

(***************************************************************************)
(* Tables (pandas DataFrames) and the absent table.                        *)
(* A table is its sequence of rows and its sequence of typed columns.      *)
(***************************************************************************)
None == [isNone |-> TRUE, rows |-> <<>>, cols |-> <<>>]

Tbl(rows, cols) == [isNone |-> FALSE, rows |-> rows, cols |-> cols]

Col(name, dtype) == [name |-> name, dtype |-> dtype]

NRows(t) == Len(t.rows)

NCols(t) == Len(t.cols)

\* DataFrame.empty: true when any axis has length zero.
IsEmpty(t) == NRows(t) = 0 \/ NCols(t) = 0

\* pd.DataFrame(): no rows, no columns.
EmptyDataFrame == Tbl(<<>>, <<>>)

(***************************************************************************)
(* Sequence helpers.                                                       *)
(***************************************************************************)
RECURSIVE SelectSeqBy(_, _)
SelectSeqBy(s, dtypes) ==
    IF s = <<>> THEN <<>>
    ELSE IF Head(s).dtype \in dtypes
         THEN <<Head(s).name>> \o SelectSeqBy(Tail(s), dtypes)
         ELSE SelectSeqBy(Tail(s), dtypes)

Names(cols) == {cols[i].name : i \in DOMAIN cols}

RECURSIVE AppendNew(_, _)
AppendNew(cols, more) ==
    IF more = <<>> THEN cols
    ELSE IF Head(more).name \in Names(cols)
         THEN AppendNew(cols, Tail(more))
         ELSE AppendNew(Append(cols, Head(more)), Tail(more))

SeqsUpTo(S, n) == UNION {[1..k -> S] : k \in 0..n}

(***************************************************************************)
(* Loader results: the value a loader returns (a table or None), whether   *)
(* it raised instead of returning, and the st.error message it showed.     *)
(***************************************************************************)
Result(raised, value, msg) == [raised |-> raised, value |-> value, msg |-> msg]

Returned(value) == Result(FALSE, value, "")

Failed(msg) == Result(FALSE, None, msg)

Raised == Result(TRUE, None, "")

(***************************************************************************)
(* File loader.  An uploaded file is identified by its name and content;   *)
(* pd.read_csv either parses the content or raises.                        *)
(***************************************************************************)
Files == {"f1", "f2"}

NoFile == "no_file"

FileName(f) == IF f = "f1" THEN "a.csv" ELSE "b.csv"

FileContent(f) == IF f = "f1" THEN "well_formed" ELSE "malformed"

\* pd.read_csv: infers int64 / object columns; raises on malformed input.
read_csv(content) ==
    IF content = "well_formed"
    THEN Returned(Tbl(<<"r1", "r2">>,
                      <<Col("date", "object"), Col("category", "object"),
                        Col("value", "int64")>>))
    ELSE Raised

load_csv(file) == read_csv(FileContent(file))

(***************************************************************************)
(* Warehouse loader.  The outcome of connecting and running the query is   *)
(* the environment's choice: a result set or an exception.                 *)
(***************************************************************************)
Queries == {"q1"}

SnowflakeOutcomes ==
    { [ok |-> FALSE, table |-> None],
      [ok |-> TRUE,
       table |-> Tbl(<<"r1">>, <<Col("ID", "int16"), Col("AMOUNT", "float64"),
                                 Col("NAME", "object")>>)],
      [ok |-> TRUE,
       table |-> Tbl(<<>>, <<Col("ID", "int64"), Col("NAME", "object")>>)] }

load_snowflake_data(outcome) ==
    IF outcome.ok
    THEN Returned(outcome.table)
    ELSE Failed("Snowflake connection error")

(***************************************************************************)
(* API loader.  A response is a timeout, a transport/HTTP error, or a JSON *)
(* body: a list of row objects, an object, or another JSON value.  The     *)
(* value under a key of an object is a list of row objects or not a list.  *)
(***************************************************************************)
Urls == {"u1"}

RowIds == {"r1", "r2"}

RowFields(r) ==
    IF r = "r1"
    THEN <<Col("a", "int64")>>
    ELSE <<Col("a", "int64"), Col("b", "object")>>

\* The preference list in the opposite order.
PreferredKeysReversed == <<"records", "items", "results", "data">>

PreferredKeys == <<"data", "results", "items", "records">>

OtherKey == "message"

KeyOrder == PreferredKeys \o <<OtherKey>>

ListValue(rows) == [isList |-> TRUE, rows |-> rows]

ScalarValue == [isList |-> FALSE, rows |-> <<>>]

NoFields == [k \in {} |-> ScalarValue]

Response(status, kind, elems, fields) ==
    [status |-> status, kind |-> kind, elems |-> elems, fields |-> fields]

Timeout == Response("timeout", "none", <<>>, NoFields)

HttpError == Response("http_error", "none", <<>>, NoFields)

ListBody(rows) == Response("ok", "list", rows, NoFields)

DictBody(fields) == Response("ok", "dict", <<>>, fields)

ScalarBody == Response("ok", "scalar", <<>>, NoFields)

NoResponse == Response("none", "none", <<>>, NoFields)

\* pd.DataFrame(list of row objects): one row per element, columns are the
\* union of the elements' keys in order of first appearance.
RECURSIVE ColumnsOfRows(_)
ColumnsOfRows(rows) ==
    IF rows = <<>> THEN <<>>
    ELSE AppendNew(RowFields(Head(rows)), ColumnsOfRows(Tail(rows)))

DataFrameFromRows(rows) == Tbl(rows, ColumnsOfRows(rows))

\* pd.DataFrame([data]): one row, one (object) column per key of data.
RECURSIVE KeysIn(_, _)
KeysIn(keys, dom) ==
    IF keys = <<>> THEN <<>>
    ELSE IF Head(keys) \in dom
         THEN <<Col(Head(keys), "object")>> \o KeysIn(Tail(keys), dom)
         ELSE KeysIn(Tail(keys), dom)

\* An object without keys special-cased to the empty table.
DataFrameFromObjectOrEmpty(fields) ==
    IF DOMAIN fields = {}
    THEN EmptyDataFrame
    ELSE Tbl(<<"self">>, KeysIn(KeyOrder, DOMAIN fields))

DataFrameFromObject(fields) == Tbl(<<"self">>, KeysIn(KeyOrder, DOMAIN fields))

\* for key in [...]: if key in data: ...   ("" when the loop finds none)
RECURSIVE FirstKeyIn(_, _)
FirstKeyIn(keys, dom) ==
    IF keys = <<>> THEN ""
    ELSE IF Head(keys) \in dom THEN Head(keys)
         ELSE FirstKeyIn(Tail(keys), dom)

fetch_api_data(response) ==
    CASE response.status = "timeout" -> Failed("API request timed out")
      [] response.status = "http_error" -> Failed("API error")
      [] OTHER ->
            IF response.kind = "list"
            THEN Returned(DataFrameFromRows(response.elems))
            ELSE IF response.kind = "dict"
            THEN LET key == FirstKeyIn(PreferredKeys, DOMAIN response.fields)
                 IN  IF key # ""
                     THEN IF response.fields[key].isList
                          THEN Returned(DataFrameFromRows(response.fields[key].rows))
                          ELSE Raised
                     ELSE Returned(DataFrameFromObject(response.fields))
            ELSE Returned(EmptyDataFrame)

(***************************************************************************)
(* Validation and column classification.                                   *)
(***************************************************************************)
\* Validation by row count alone, without DataFrame.empty.
validate_dataframe_by_rows(t) ==
    IF t.isNone THEN FALSE
    ELSE IF NRows(t) < 1 THEN FALSE
    ELSE TRUE

validate_dataframe(t) ==
    IF t.isNone \/ IsEmpty(t) THEN FALSE
    ELSE IF NRows(t) < 1 THEN FALSE
    ELSE TRUE

NumericDTypes == {"int64", "float64", "int32", "float32"}

CategoricalDTypes == {"object", "category", "string"}

get_numeric_columns(t) == SelectSeqBy(t.cols, NumericDTypes)

get_categorical_columns(t) == SelectSeqBy(t.cols, CategoricalDTypes)

(***************************************************************************)
(* State.                                                                  *)
(*   df, data_source, uploaded_filename : st.session_state                 *)
(*   csv_cache, sf_cache, api_cache     : the st.cache_data stores         *)
(*   now, ticks                         : wall clock (seconds), tick count *)
(*   gate, rendered, messages,                                             *)
(*   numeric_cols, categorical_cols     : outcome of the latest script run *)
(*   response                           : the latest HTTP response         *)
(*   call, fresh, df_origin             : history of loader calls          *)
(***************************************************************************)
VARIABLES df, data_source, uploaded_filename,
          csv_cache, sf_cache, api_cache,
          now, ticks,
          gate, rendered, messages, numeric_cols, categorical_cols,
          response, call, fresh, df_origin

session == <<df, data_source, uploaded_filename>>

caches == <<csv_cache, sf_cache, api_cache>>

clock == <<now, ticks>>

view == <<gate, rendered, messages, numeric_cols, categorical_cols>>

vars == <<df, data_source, uploaded_filename, csv_cache, sf_cache, api_cache,
          now, ticks, gate, rendered, messages, numeric_cols,
          categorical_cols, response, call, fresh, df_origin>>

(***************************************************************************)
(* st.cache_data: memoization by argument, optional time-to-live.          *)
(* A value is stored only when the function returns; an exception leaves   *)
(* the store as it was.                                                    *)
(***************************************************************************)
NoEntry == [present |-> FALSE, result |-> Returned(None), created |-> 0]

Entry(result, t) == [present |-> TRUE, result |-> result, created |-> t]

CacheHit(cache, key, ttl, t) ==
    /\ cache[key].present
    /\ (ttl = NoTtl \/ t < cache[key].created + ttl)

CachedResult(cache, key, ttl, t, computed) ==
    IF CacheHit(cache, key, ttl, t) THEN cache[key].result ELSE computed

CacheStore(cache, key, ttl, t, computed) ==
    IF CacheHit(cache, key, ttl, t) \/ computed.raised
    THEN cache
    ELSE [cache EXCEPT ![key] = Entry(computed, t)]

(***************************************************************************)
(* History of loader calls: the loader call of the latest run, and for     *)
(* each key the latest invocation of the underlying transport.             *)
(***************************************************************************)
LoaderKeys == Files \cup Queries \cup Urls

NoCall == [loader |-> "none", key |-> "", invoked |-> FALSE,
           result |-> Returned(None), prior |-> NoEntry, at |-> 0]

Call(loader, key, invoked, result, prior, t) ==
    [loader |-> loader, key |-> key, invoked |-> invoked,
     result |-> result, prior |-> prior, at |-> t]

NoOrigin == [kind |-> "None", id |-> "None"]

Origin(kind, id) == [kind |-> kind, id |-> id]

Init ==
    /\ df = None
    /\ data_source = "None"
    /\ uploaded_filename = "None"
    /\ csv_cache = [f \in Files |-> NoEntry]
    /\ sf_cache = [q \in Queries |-> NoEntry]
    /\ api_cache = [u \in Urls |-> NoEntry]
    /\ now = 0
    /\ ticks = 0
    /\ gate = "not_run"
    /\ rendered = {}
    /\ messages = {}
    /\ numeric_cols = <<>>
    /\ categorical_cols = <<>>
    /\ response = NoResponse
    /\ call = NoCall
    /\ fresh = [k \in LoaderKeys |-> NoEntry]
    /\ df_origin = NoOrigin

(***************************************************************************)
(* Main content of the script (lines 169-406), run on the session's table. *)
(***************************************************************************)
Panels == {"data", "charts", "statistics", "export"}

MsgOf(result) == IF result.msg = "" THEN {} ELSE {result.msg}

MainContent(d, sidebarMsgs) ==
    IF d.isNone
    THEN /\ gate' = "no_data"
         /\ rendered' = {}
         /\ messages' = sidebarMsgs
         /\ numeric_cols' = <<>>
         /\ categorical_cols' = <<>>
    ELSE IF ~validate_dataframe(d)
    THEN /\ gate' = "rejected"
         /\ rendered' = {}
         /\ messages' = sidebarMsgs \cup {"No data loaded"}
         /\ numeric_cols' = <<>>
         /\ categorical_cols' = <<>>
    ELSE /\ gate' = "passed"
         /\ numeric_cols' = get_numeric_columns(d)
         /\ categorical_cols' = get_categorical_columns(d)
         /\ IF Len(get_numeric_columns(d)) = 0
            THEN /\ rendered' = {"data", "charts"}
                 /\ messages' = sidebarMsgs \cup {"No numeric columns found"}
            ELSE \E chartFails \in BOOLEAN :
                 /\ rendered' = Panels
                 /\ messages' = sidebarMsgs \cup
                        (IF chartFails THEN {"Error generating chart"} ELSE {})

\* An exception that escapes the script ends the run where it was raised.
ScriptFault ==
    /\ gate' = "fault"
    /\ rendered' = {}
    /\ messages' = {"uncaught exception"}
    /\ numeric_cols' = <<>>
    /\ categorical_cols' = <<>>

(***************************************************************************)
(* Sidebar (lines 91-166).  Each branch calls its cached loader and, when  *)
(* the loader returned a table, stores it in the session state.  The       *)
(* underlying transport answers only when the cache misses.                *)
(***************************************************************************)
\* The branch storing whatever the loader returned.
LoadedUnchecked(result) == TRUE

\* if df is not None:
Loaded(result) == ~result.value.isNone

\* A run in which the selected branch calls no loader.
NoLoad ==
    /\ UNCHANGED <<session, caches, clock, response, fresh, df_origin>>
    /\ call' = NoCall
    /\ MainContent(df, {})

\* The rest of the run after the loader call: the branch's assignments to
\* the session state, then the main content.
AfterLoad(loader, key, hit, result, kind, filename) ==
    /\ call' = Call(loader, key, ~hit, result, fresh[key], now)
    /\ fresh' = IF hit THEN fresh ELSE [fresh EXCEPT ![key] = Entry(result, now)]
    /\ UNCHANGED clock
    /\ IF result.raised
       THEN /\ UNCHANGED <<session, df_origin>>
            /\ ScriptFault
       ELSE IF Loaded(result)
       THEN /\ df' = result.value
            /\ data_source' = kind
            /\ uploaded_filename' = filename
            /\ df_origin' = Origin(kind, key)
            /\ MainContent(result.value, {"Loaded"})
       ELSE /\ UNCHANGED <<session, df_origin>>
            /\ MainContent(df, MsgOf(result))

\* CSV Upload branch, lines 104-118.
RunCsvUpload(file) ==
    IF file = NoFile
    THEN NoLoad
    ELSE LET hit == CacheHit(csv_cache, file, NoTtl, now)
             computed == load_csv(file)
             result == CachedResult(csv_cache, file, NoTtl, now, computed)
         IN  /\ csv_cache' = CacheStore(csv_cache, file, NoTtl, now, computed)
             /\ UNCHANGED <<sf_cache, api_cache, response>>
             /\ AfterLoad("csv", file, hit, result, "CSV", FileName(file))

\* Snowflake branch, lines 121-137.
RunSnowflake(query, pressed) ==
    IF ~pressed
    THEN NoLoad
    ELSE LET hit == CacheHit(sf_cache, query, NoTtl, now)
         IN  \E outcome \in IF hit THEN {CHOOSE o \in SnowflakeOutcomes : TRUE}
                             ELSE SnowflakeOutcomes :
               LET computed == load_snowflake_data(outcome)
                   result == CachedResult(sf_cache, query, NoTtl, now, computed)
               IN  /\ sf_cache' = CacheStore(sf_cache, query, NoTtl, now, computed)
                   /\ UNCHANGED <<csv_cache, api_cache, response>>
                   /\ AfterLoad("snowflake", query, hit, result,
                                "Snowflake", uploaded_filename)

\* API branch, lines 140-155.
RunApi(url, pressed, responses) ==
    IF ~pressed
    THEN NoLoad
    ELSE LET hit == CacheHit(api_cache, url, ApiTtl, now)
         IN  \E resp \in IF hit THEN {response} ELSE responses :
               LET computed == fetch_api_data(resp)
                   result == CachedResult(api_cache, url, ApiTtl, now, computed)
               IN  /\ api_cache' = CacheStore(api_cache, url, ApiTtl, now, computed)
                   /\ response' = resp
                   /\ UNCHANGED <<csv_cache, sf_cache>>
                   /\ AfterLoad("api", url, hit, result, "API", uploaded_filename)

\* Time passes between interactions.
TickStep == ApiTtl \div 2

Tick ==
    /\ ticks < MaxTicks
    /\ now' = now + TickStep
    /\ ticks' = ticks + 1
    /\ UNCHANGED <<session, caches, view, response, call, fresh, df_origin>>

ApiResponses ==
    { Timeout, HttpError,
      ListBody(<<"r1", "r2">>),
      DictBody(NoFields),
      DictBody([k \in {OtherKey} |-> ScalarValue]),
      DictBody([k \in {"data"} |-> ListValue(<<"r1">>)]),
      DictBody([k \in {"results"} |-> ScalarValue]) }

CsvUpload == \E file \in Files \cup {NoFile} : RunCsvUpload(file)

Snowflake == \E query \in Queries, pressed \in BOOLEAN :
                 RunSnowflake(query, pressed)

Api == \E url \in Urls, pressed \in BOOLEAN :
           RunApi(url, pressed, ApiResponses)

Next == CsvUpload \/ Snowflake \/ Api \/ Tick

Spec == Init /\ [][Next]_vars

(***************************************************************************)
(* The API loader on its own, over every JSON body of the bounded shape:   *)
(* lists of up to MaxRows row objects, objects with any subset of the      *)
(* preferred keys (each holding a list of up to MaxRows like rows) with or *)
(* without another key, and non-container values.                          *)
(***************************************************************************)
RowLists == SeqsUpTo(RowIds, MaxRows)

JsonValues == {ListValue(rows) : rows \in SeqsUpTo({"r1"}, MaxRows)}

PreferredKeySet == {PreferredKeys[i] : i \in DOMAIN PreferredKeys}

PreferredFields == UNION {[S -> JsonValues] : S \in SUBSET PreferredKeySet}

JsonResponses ==
    {Timeout, HttpError, ScalarBody}
    \cup {ListBody(rows) : rows \in RowLists}
    \cup {DictBody(f) : f \in PreferredFields}
    \cup {DictBody(f @@ (OtherKey :> ScalarValue)) : f \in PreferredFields}

ApiFetch == \E url \in Urls : RunApi(url, TRUE, JsonResponses)

SpecFetch == Init /\ [][ApiFetch]_vars

(***************************************************************************)
(* Properties.                                                             *)
(***************************************************************************)
LoaderCalled == call.loader # "none"

\* C1: the stored provenance (data_source and uploaded_filename) describes
\* the load that produced the stored table: the source kind is that load's
\* kind, and the filename is that load's file when it was an upload and is
\* not left over from an earlier upload otherwise.
C1_ProvenanceDescribesTable ==
    ~df.isNone =>
        /\ data_source = df_origin.kind
        /\ uploaded_filename =
               IF df_origin.kind = "CSV" THEN FileName(df_origin.id) ELSE "None"

\* C2: no loader failure propagates out of the loader: every loader call
\* returns, and a call that returns no table has shown a message.
C2_LoaderFailuresCaught ==
    LoaderCalled =>
        /\ ~call.result.raised
        /\ gate # "fault"
        /\ (call.result.value.isNone => call.result.msg \in messages)

\* C3: the session's table, source kind and filename change only in a run
\* whose loader returned a table, and then the table is that loader's
\* result as a whole; a run whose loader returned None, raised, or was not
\* called leaves all three unchanged.
C3_SessionChangesOnlyOnSuccessfulLoad ==
    [][session' # session =>
          /\ call'.loader # "none"
          /\ ~call'.result.raised
          /\ ~call'.result.value.isNone
          /\ df' = call'.result.value]_vars

C3_Witness_FailedLoadKeepsTable ==
    /\ call.loader = "snowflake"
    /\ call.invoked
    /\ call.result.value.isNone
    /\ ~df.isNone
    /\ data_source = "CSV"
    /\ uploaded_filename = "a.csv"

\* C4: a loader call whose key was already loaded through the transport,
\* within the expiry window of that load, does not invoke the transport
\* again and returns what that load produced.
WithinWindow ==
    call.loader = "api" => call.at < call.prior.created + ApiTtl

C4_CacheIdempotence ==
    (LoaderCalled /\ call.prior.present /\ WithinWindow) =>
        /\ ~call.invoked
        /\ call.result = call.prior.result

\* C5: an API result expires ApiTtl seconds after it was cached (an access
\* before that is served from the cache, an access from then on invokes
\* the transport again); an access with a previously seen file or query
\* never invokes the transport again.
C5_CacheExpiry ==
    /\ (call.loader = "api" /\ call.prior.present /\ ~call.prior.result.raised)
          => (call.invoked <=> call.at >= call.prior.created + ApiTtl)
    /\ (call.loader \in {"csv", "snowflake"} /\ call.prior.present)
          => ~call.invoked

\* C8 as stated: validation passes exactly for present tables with at least
\* one row, and a run that does not pass renders no tab.
Validated == gate \in {"no_data", "rejected", "passed"}

C8_AcceptsEveryTableWithRows ==
    Validated =>
        /\ (gate = "passed") <=> (~df.isNone /\ NRows(df) >= 1)
        /\ (gate # "passed" => rendered = {})

\* C8 amended: validation passes exactly for present tables with at least
\* one row and at least one column, and a run that does not pass renders
\* no tab.
C8_AcceptsTablesWithRowsAndColumns ==
    Validated =>
        /\ (gate = "passed") <=> (~df.isNone /\ NRows(df) >= 1 /\ NCols(df) >= 1)
        /\ (gate # "passed" => rendered = {})

C8_Witness_RowsWithoutColumnsRejected ==
    /\ gate = "rejected"
    /\ NRows(df) = 1
    /\ NCols(df) = 0
    /\ rendered = {}

\* C9: the numeric and categorical lists are disjoint, keep the table's
\* column order, contain only columns of the table, and contain every
\* integer/float column (of any width) and every string/category column.
IntegerAndFloatDTypes ==
    {"int8", "int16", "int32", "int64", "uint8", "uint16", "uint32", "uint64",
     "float16", "float32", "float64"}

StringAndCategoryDTypes == {"object", "string", "category"}

ElemsOf(seq) == {seq[i] : i \in DOMAIN seq}

RECURSIVE IsSubsequence(_, _)
IsSubsequence(a, b) ==
    IF a = <<>> THEN TRUE
    ELSE IF b = <<>> THEN FALSE
    ELSE IF Head(a) = Head(b) THEN IsSubsequence(Tail(a), Tail(b))
    ELSE IsSubsequence(a, Tail(b))

ColumnNames(t) == [i \in DOMAIN t.cols |-> t.cols[i].name]

C9_ClassifierPartition ==
    gate = "passed" =>
        /\ ElemsOf(numeric_cols) \cap ElemsOf(categorical_cols) = {}
        /\ IsSubsequence(numeric_cols, ColumnNames(df))
        /\ IsSubsequence(categorical_cols, ColumnNames(df))
        /\ \A i \in DOMAIN df.cols :
              /\ df.cols[i].dtype \in IntegerAndFloatDTypes
                    => df.cols[i].name \in ElemsOf(numeric_cols)
              /\ df.cols[i].dtype \in StringAndCategoryDTypes
                    => df.cols[i].name \in ElemsOf(categorical_cols)

\* C10: in every run whose table passes validation the Statistics and
\* Export panels are rendered, whatever happens in the Charts panel.
C10_LaterPanelsAlwaysRendered ==
    gate = "passed" => {"statistics", "export"} \subseteq rendered

(***************************************************************************)
(* Properties of the API loader's normalization (checked under SpecFetch). *)
(***************************************************************************)
Fetched == call.loader = "api" /\ call.invoked /\ response.status = "ok"

KeyPreference == <<"data", "results", "items", "records">>

PresentAt(fields) == {i \in DOMAIN KeyPreference : KeyPreference[i] \in DOMAIN fields}

FirstPresent(fields) ==
    KeyPreference[CHOOSE i \in PresentAt(fields) : \A j \in PresentAt(fields) : i <= j]

\* C6: a fetched list body yields one row per element; a fetched object
\* body yields the rows of the value under the first key present among
\* data, results, items, records; an object body with none of these keys
\* yields a single row.
C6_NormalizationPrecedence ==
    Fetched =>
        /\ ~call.result.raised
        /\ ~call.result.value.isNone
        /\ response.kind = "list" => call.result.value.rows = response.elems
        /\ (response.kind = "dict" /\ PresentAt(response.fields) # {}) =>
              call.result.value.rows =
                  response.fields[FirstPresent(response.fields)].rows
        /\ (response.kind = "dict" /\ PresentAt(response.fields) = {}) =>
              NRows(call.result.value) = 1

C6_Witness_EarlierKeyWins ==
    /\ Fetched
    /\ response.kind = "dict"
    /\ DOMAIN response.fields = {"results", "records", OtherKey}
    /\ response.fields["results"].rows = <<"r1", "r1">>
    /\ response.fields["records"].rows = <<"r1">>
    /\ df.rows = <<"r1", "r1">>
    /\ data_source = "API"

\* C7 as stated: the body {} yields a table with zero rows, not a one-row
\* table and not None.
EmptyObjectFetched == Fetched /\ response = DictBody(NoFields)

C7_EmptyObjectGivesZeroRows ==
    EmptyObjectFetched =>
        /\ ~call.result.raised
        /\ ~call.result.value.isNone
        /\ NRows(call.result.value) = 0

\* C7 amended: the body {} is treated as a single row: it yields a table
\* with one row and no columns, not a zero-row table and not None.
C7_EmptyObjectGivesOneRowNoColumns ==
    EmptyObjectFetched =>
        /\ ~call.result.raised
        /\ ~call.result.value.isNone
        /\ NRows(call.result.value) = 1
        /\ NCols(call.result.value) = 0

C7_Witness_EmptyObjectLoaded ==
    /\ EmptyObjectFetched
    /\ df = call.result.value
    /\ data_source = "API"
    /\ "Loaded" \in messages

====
